---- MODULE Spec2Model ----
(***************************************************************************)
(* A model of the fuzzy command interpreter (src/interp/parser.py and      *)
(* src/interp/interpreter.py): one statement is parsed into an ambiguity   *)
(* forest, the forest is expanded into candidate expressions, every        *)
(* candidate is bound against the live objects, the best binding is        *)
(* executed, and the environment (variables, active target, statement log) *)
(* is updated.                                                             *)
(*                                                                         *)
(* The model follows the public operation tables: method names range over  *)
(* names that do not start with an underscore, as the interpreter's own    *)
(* `options` listing does.                                                 *)
(***************************************************************************)
EXTENDS Integers, Sequences, FiniteSets, TLC

VARIABLES
    vars,       \* Interpreter._vars: variable name -> value
    target,     \* Interpreter._target: the active target
    session,    \* Interpreter._session: the log of accepted statements
    pc,         \* position inside Interpreter.__call__: "idle", "call", "store"
    stmt,       \* the statement being processed (the last one when idle)
    bindings,   \* the sorted list of bindings of the statement (line 195)
    result,     \* the value returned by the bound call (r, line 170)
    nextId,     \* identity of the next object that is constructed
    outcome,    \* how the last statement ended
    report,     \* the diagnostic printed for the last statement
    shown,      \* what show() rendered while the last statement ran, in order
    calls,      \* the bound calls executed for the current statement
    pre,        \* the environment when the current statement was submitted
    accepted,   \* the number of statements accepted so far
    recent,     \* the last accepted statements, each with the target and variables it left
    shell,      \* the read-eval loop of __main__: "reading" or "exited"
    prior,      \* how the statement before the current one ended
    input,      \* the text handed to the parser's visitors on their own
    expanded,   \* the candidates the visitors produced for it
    menu,       \* the statements this session draws its input from
    rootOrder   \* the order in which the parser lists the readings of a statement

svars == <<vars, target, session, pc, stmt, bindings, result, nextId, outcome,
           report, shown, calls, pre, accepted, recent, shell, prior, input, expanded, menu, rootOrder>>

----------------------------------------------------------------------------
(* Bounds of the model *)

\* the number of statements a session accepts
MaxAccepted == 5
\* the number of accepted statements the model remembers
Window == 3
\* the number of characters of a lexeme
MaxLexeme == 3
\* the number of elements of a literal list
MaxList == 3
\* the number of pairs of a literal map
MaxMap == 2

----------------------------------------------------------------------------
(* Python values *)

NoName == ""

Val(k, s, n) == [kind |-> k, s |-> s, n |-> n]

NoneV == Val("none", "", 0)
Str(s) == Val("str", s, 0)
\* float(text): the number a NUMBER token denotes
Num(s) == Val("num", s, 0)
\* parser.Id
IdV(s) == Val("id", s, 0)
\* a python list; s names its content
ListV(s) == Val("list", s, 0)
\* the Interpreter object and the wrapper Interpreter._iself around it
InterpObj == Val("interpreter", "", 0)
ISelf == Val("iself", "", 0)
\* an application object of type s and the InterpretableWrapper a factory returns
AppObj(s, n) == Val("appobj", s, n)
AppWrapper(s, n) == Val("app", s, n)
\* InterpretableWrapper(r), constructed by _call_expression for a result r
Wrapped(r, n) == Val("wrapped:" \o r.kind, r.s, n)

WrapperKinds == {"iself", "app", "wrapped:none", "wrapped:num"}

\* isinstance(v, Interpretable)
IsInterpretable(v) == v.kind \in WrapperKinds

\* InterpretableWrapper._obj
Unwrap(v) ==
    CASE v.kind = "iself" -> InterpObj
      [] v.kind = "app" -> AppObj(v.s, v.n)
      [] v.kind = "wrapped:none" -> NoneV
      [] v.kind = "wrapped:num" -> Num(v.s)
      [] OTHER -> v

----------------------------------------------------------------------------
(* Parse trees (lark.Tree and lark.Token) *)

Tree(data, children) == [data |-> data, children |-> children, value |-> ""]
Token(value) == [data |-> "TOKEN", children |-> <<>>, value |-> value]
Ambig(children) == Tree("_ambig", children)

\* id: CNAME
IdTree(w) == Tree("id", <<Token(w)>>)

\* A lexeme together with the terminals of the literal rule it matches.
Word(w) == [cls |-> "word", lex |-> w]        \* UNQUOTED_STRING and CNAME
Number(w) == [cls |-> "number", lex |-> w]    \* NUMBER and UNQUOTED_STRING
Quoted(w) == [cls |-> "quoted", lex |-> w]    \* QUOTED_STRING
Name(w) == [cls |-> "name", lex |-> w]        \* CNAME only (e.g. _tmp)

\* a forest that lists the identifier reading of a word before its text
LiteralForestIdFirst(l) ==
    CASE l.cls = "word" ->
            Ambig(<<Tree("id", <<Token(l.lex)>>), Tree("naked_string", <<Token(l.lex)>>)>>)
      [] l.cls = "number" ->
            Ambig(<<Tree("number", <<Token(l.lex)>>), Tree("naked_string", <<Token(l.lex)>>)>>)
      [] l.cls = "quoted" -> Tree("string", <<Token(l.lex)>>)
      [] OTHER -> Tree("id", <<Token(l.lex)>>)

\* The forest of one literal: the alternatives of the literal rule that match the
\* lexeme, in the order of the rule's alternatives, under an _ambig node when there
\* is more than one.
LiteralForest(l) ==
    CASE l.cls = "word" ->
            Ambig(<<Tree("naked_string", <<Token(l.lex)>>), Tree("id", <<Token(l.lex)>>)>>)
      [] l.cls = "number" ->
            Ambig(<<Tree("number", <<Token(l.lex)>>), Tree("naked_string", <<Token(l.lex)>>)>>)
      [] l.cls = "quoted" -> Tree("string", <<Token(l.lex)>>)
      [] OTHER -> Tree("id", <<Token(l.lex)>>)

----------------------------------------------------------------------------
(* The terminals of the grammar, over lexemes written as sequences of      *)
(* characters.  The lexer matches a terminal against the longest text it   *)
(* accepts, so a lexeme is a literal when the whole of it matches.         *)

Digits == {"5"}
Letters == {"e", "a"}

All(cs, S) == \A i \in 1..Len(cs) : cs[i] \in S

\* common.INT: DIGIT+
IsInt(cs) == cs # <<>> /\ All(cs, Digits)

\* common.SIGNED_INT: ["+"|"-"] INT
IsSignedInt(cs) ==
    IsInt(cs) \/ (cs # <<>> /\ cs[1] \in {"+", "-"} /\ IsInt(Tail(cs)))

\* common.DECIMAL: INT "." INT? | "." INT
IsDecimal(cs) ==
    \E d \in 1..Len(cs) :
        /\ cs[d] = "."
        /\ \/ IsInt(SubSeq(cs, 1, d - 1)) /\ (d = Len(cs) \/ IsInt(SubSeq(cs, d + 1, Len(cs))))
           \/ d = 1 /\ IsInt(SubSeq(cs, 2, Len(cs)))

\* common.FLOAT: INT _EXP | DECIMAL _EXP?   with _EXP: ("e"|"E") SIGNED_INT
IsFloat(cs) ==
    \/ IsDecimal(cs)
    \/ \E x \in 1..Len(cs) :
          /\ cs[x] = "e"
          /\ IsInt(SubSeq(cs, 1, x - 1)) \/ IsDecimal(SubSeq(cs, 1, x - 1))
          /\ IsSignedInt(SubSeq(cs, x + 1, Len(cs)))

\* NUMBER of the grammar, which is common.SIGNED_NUMBER: ["+"|"-"] (FLOAT | INT)
IsNumber(cs) ==
    \/ IsFloat(cs) \/ IsInt(cs)
    \/ cs # <<>> /\ cs[1] \in {"+", "-"} /\ (IsFloat(Tail(cs)) \/ IsInt(Tail(cs)))

\* UNQUOTED_STRING: /[a-z0-9.\/:\-]+/i
IsUnquoted(cs) == cs # <<>> /\ All(cs, Letters \cup Digits \cup {".", "/", ":", "-"})

\* QUOTED_STRING: text between two quotes of the same kind
IsQuoted(cs) ==
    /\ Len(cs) >= 2
    /\ cs[1] = "'" /\ cs[Len(cs)] = "'"
    /\ \A i \in 2..(Len(cs) - 1) : cs[i] # "'"

\* common.CNAME: ("_"|LETTER) ("_"|LETTER|DIGIT)*
IsCName(cs) ==
    /\ cs # <<>>
    /\ cs[1] \in Letters \cup {"_"}
    /\ All(cs, Letters \cup Digits \cup {"_"})

\* the text of a lexeme
RECURSIVE TextOf(_)
TextOf(cs) == IF cs = <<>> THEN "" ELSE cs[1] \o TextOf(Tail(cs))

\* the alternatives of the rule literal that derive the lexeme, in the order of the
\* rule: number, string, naked_string, id
Alternatives(cs) ==
    (IF IsNumber(cs) THEN <<"number">> ELSE <<>>)
    \o (IF IsQuoted(cs) THEN <<"string">> ELSE <<>>)
    \o (IF IsUnquoted(cs) THEN <<"naked_string">> ELSE <<>>)
    \o (IF IsCName(cs) THEN <<"id">> ELSE <<>>)

\* the forest of the lexeme: one tree per alternative, under an _ambig node when
\* there are several; a LarkError when no alternative derives it
AlternativeTrees(alts, text) ==
    IF alts = <<>> THEN Tree("error", <<>>)
    ELSE IF Len(alts) = 1 THEN Tree(alts[1], <<Token(text)>>)
    ELSE Ambig([i \in 1..Len(alts) |-> Tree(alts[i], <<Token(text)>>)])

LexemeForest(cs) == AlternativeTrees(Alternatives(cs), TextOf(cs))

\* One reading of a statement by the start rule.
Reading(tgt, method, list, map, assign) ==
    [target |-> tgt, method |-> method, list |-> list, map |-> map, assign |-> assign]

\* literal_map: id literal ("," id literal)*   (children: id, literal, id, literal...)
RECURSIVE MapChildren(_)
MapChildren(map) ==
    IF map = <<>> THEN <<>>
    ELSE <<IdTree(map[1].key), LiteralForest(map[1].lit)>> \o MapChildren(Tail(map))

ArgsTree(r) ==
    LET listT == Tree("literal_list", [i \in 1..Len(r.list) |-> LiteralForest(r.list[i])])
        mapT == Tree("literal_map", MapChildren(r.map))
    IN  IF r.list # <<>> /\ r.map # <<>> THEN <<Tree("args", <<listT, mapT>>)>>
        ELSE IF r.list # <<>> THEN <<Tree("args", <<listT>>)>>
        ELSE IF r.map # <<>> THEN <<Tree("args", <<mapT>>)>>
        ELSE <<>>

\* start: target? method "with"? args? assignment?
StartTree(r) ==
    Tree("start",
         (IF r.target # NoName THEN <<Tree("target", <<IdTree(r.target)>>)>> ELSE <<>>)
         \o <<Tree("method", [i \in 1..Len(r.method) |-> IdTree(r.method[i])])>>
         \o ArgsTree(r)
         \o (IF r.assign # NoName THEN <<Tree("assignment", <<IdTree(r.assign)>>)>> ELSE <<>>))

----------------------------------------------------------------------------
(* The statements of the model and their parse forests (Lark with the      *)
(* grammar of parser.py, ambiguity='explicit').  Keywords are also CNAMEs, *)
(* so the words of a statement can be split between the method name, the   *)
(* argument clause and the assignment clause in several ways.              *)

NoArgs == <<>>

\* "a"
OneWord(a) == <<Reading(NoName, <<a>>, NoArgs, NoArgs, NoName)>>

\* "a b"
TwoWords(a, b) ==
    << Reading(NoName, <<a, b>>, NoArgs, NoArgs, NoName),
       Reading(NoName, <<a>>, <<Word(b)>>, NoArgs, NoName) >>

\* "a b c"
ThreeWords(a, b, c) ==
    << Reading(NoName, <<a, b, c>>, NoArgs, NoArgs, NoName),
       Reading(NoName, <<a, b>>, <<Word(c)>>, NoArgs, NoName),
       Reading(NoName, <<a>>, NoArgs, <<[key |-> b, lit |-> Word(c)]>>, NoName) >>

\* "[using t,] a b as v"
TwoWordsAs(t, a, b, v) ==
    << Reading(t, <<a, b, "as", v>>, NoArgs, NoArgs, NoName),
       Reading(t, <<a, b, "as">>, <<Word(v)>>, NoArgs, NoName),
       Reading(t, <<a, b>>, NoArgs, <<[key |-> "as", lit |-> Word(v)]>>, NoName),
       Reading(t, <<a, b>>, NoArgs, NoArgs, v),
       Reading(t, <<a>>, <<Word(b)>>, NoArgs, v) >>

\* "using t, a": the word using is a CNAME too, so the statement is also the call
\* of a method named using with the list t, a
UsingWord(t, a) ==
    << Reading(t, <<a>>, NoArgs, NoArgs, NoName),
       Reading(NoName, <<"using">>, <<Word(t), Word(a)>>, NoArgs, NoName) >>

\* "using t, a as v"
UsingWordAs(t, a, v) ==
    << Reading(t, <<a, "as", v>>, NoArgs, NoArgs, NoName),
       Reading(t, <<a, "as">>, <<Word(v)>>, NoArgs, NoName),
       Reading(t, <<a>>, NoArgs, <<[key |-> "as", lit |-> Word(v)]>>, NoName),
       Reading(t, <<a>>, NoArgs, NoArgs, v),
       Reading(NoName, <<"using">>, <<Word(t), Word(a)>>, NoArgs, v) >>

\* The readings of each statement; <<>> when the statement matches no production.
Readings(text) ==
    CASE text = "create widgets as x" -> TwoWordsAs(NoName, "create", "widgets", "x")
      [] text = "create widgets as y" -> TwoWordsAs(NoName, "create", "widgets", "y")
      [] text = "create gadgets as x" -> TwoWordsAs(NoName, "create", "gadgets", "x")
      [] text = "create gadgets" -> TwoWords("create", "gadgets")
      [] text = "create 1 as x" ->
            <<Reading(NoName, <<"create">>, <<Number("1")>>, NoArgs, "x")>>
      [] text = "create widgets now" -> ThreeWords("create", "widgets", "now")
      [] text = "use x" -> TwoWords("use", "x")
      [] text = "use y" -> TwoWords("use", "y")
      [] text = "use previousTarget" -> TwoWords("use", "previousTarget")
      [] text = "use" -> OneWord("use")
      [] text = "drop target" -> TwoWords("drop", "target")
      [] text = "delete x" -> TwoWords("delete", "x")
      [] text = "delete z" -> TwoWords("delete", "z")
      [] text = "clear session" -> TwoWords("clear", "session")
      [] text = "ping" -> OneWord("ping")
      [] text = "using x, boom" -> UsingWord("x", "boom")
      [] text = "using z, ping" -> UsingWord("z", "ping")
      [] text = "using x, list" -> UsingWord("x", "list")
      [] text = "using w, count as n" -> UsingWordAs("w", "count", "n")
      [] text = "using w, greet alice as g" -> TwoWordsAs("w", "greet", "alice", "g")
      [] text = "create widgets as w" -> TwoWordsAs(NoName, "create", "widgets", "w")
      [] text = "drop target as v" -> TwoWordsAs(NoName, "drop", "target", "v")
      [] text = "use w" -> TwoWords("use", "w")
      [] text = "use g" -> TwoWords("use", "g")
      [] text = "show w" -> TwoWords("show", "w")
      [] text = "delete w" -> TwoWords("delete", "w")
      [] text = "delete g" -> TwoWords("delete", "g")
      [] text = "delete n" -> TwoWords("delete", "n")
      [] text = "delete v" -> TwoWords("delete", "v")
      [] text = "list" -> OneWord("list")
      [] text = "list as l" ->
            << Reading(NoName, <<"list", "as", "l">>, NoArgs, NoArgs, NoName),
               Reading(NoName, <<"list", "as">>, <<Word("l")>>, NoArgs, NoName),
               Reading(NoName, <<"list">>, NoArgs, <<[key |-> "as", lit |-> Word("l")]>>,
                       NoName),
               Reading(NoName, <<"list">>, NoArgs, NoArgs, "l") >>
      [] text = "options" -> OneWord("options")
      [] text = "exit" -> OneWord("exit")
      [] text = "boom" -> OneWord("boom")
      [] text = "create widgets as w_1" ->
            << Reading(NoName, <<"create", "widgets", "as", "w_1">>, NoArgs, NoArgs, NoName),
               Reading(NoName, <<"create", "widgets", "as">>, <<Name("w_1")>>, NoArgs,
                       NoName),
               Reading(NoName, <<"create", "widgets">>, NoArgs,
                       <<[key |-> "as", lit |-> Name("w_1")]>>, NoName),
               Reading(NoName, <<"create", "widgets">>, NoArgs, NoArgs, "w_1"),
               Reading(NoName, <<"create">>, <<Word("widgets")>>, NoArgs, "w_1") >>
      [] text = "show w_1" ->
            << Reading(NoName, <<"show", "w_1">>, NoArgs, NoArgs, NoName),
               Reading(NoName, <<"show">>, <<Name("w_1")>>, NoArgs, NoName) >>
      [] text = "use w_1" ->
            << Reading(NoName, <<"use", "w_1">>, NoArgs, NoArgs, NoName),
               Reading(NoName, <<"use">>, <<Name("w_1")>>, NoArgs, NoName) >>
      [] text = "using x, greet alice as g" -> TwoWordsAs("x", "greet", "alice", "g")
      [] text = "using g, ping" -> UsingWord("g", "ping")
      [] text = "nonexistent_method 1,2" ->
            <<Reading(NoName, <<"nonexistent_method">>, <<Number("1"), Number("2")>>,
                      NoArgs, NoName)>>
      [] OTHER -> <<>>

\* The inputs of a session are drawn from one of these sets of statements.
MenuBind == {"create widgets as x", "use x", "use", "using x, greet alice as g",
             "using g, ping", "nonexistent_method 1,2", "create widgets now", "boom"}
MenuEnv == {"create widgets as x", "create gadgets as x", "create 1 as x", "delete x",
            "delete z", "clear session", "use ,,", "using x, boom", "create gadgets"}
MenuTarget == {"create widgets as x", "create widgets as y", "use x", "use y",
               "use previousTarget"}
MenuDrop == {"create widgets as x", "use x", "drop target", "ping", "clear session"}
MenuGreet == {"create widgets as w", "using w, greet alice as g", "using w, count as n",
              "delete g", "delete n", "list as l", "use g"}
MenuWrap == {"create widgets as w", "use w", "drop target as v", "delete v"}
MenuShow == {"create widgets as w", "use w", "show w", "delete w", "exit"}
MenuExplicit == {"create widgets as x", "use x", "using z, ping", "using x, list",
                 "list", "options"}
MenuName == {"create widgets as w", "create widgets as w_1", "show w", "show w_1",
             "use w_1"}
Menus == {MenuBind, MenuEnv, MenuTarget, MenuDrop, MenuGreet, MenuWrap, MenuShow,
          MenuExplicit, MenuName}
Statements == UNION Menus
Orders == {"forward", "reverse"}

Reverse(s) == [i \in 1..Len(s) |-> s[Len(s) + 1 - i]]

\* the forest of a statement with the readings rs: an _ambig node at the root when
\* there are several readings.  A LarkError is modelled as a tree named "error".
Forest(rs) ==
    IF Len(rs) = 0 THEN Tree("error", <<>>)
    ELSE IF Len(rs) = 1 THEN StartTree(rs[1])
    ELSE Ambig([i \in 1..Len(rs) |-> StartTree(rs[i])])

\* the readings in the order the parser lists them at the root
Ordered(rs, order) == IF order = "forward" THEN rs ELSE Reverse(rs)

\* Lark.parse
LarkParse(text, order) == Forest(Ordered(Readings(text), order))

----------------------------------------------------------------------------
(* Candidate expressions: parser.py, visit_* *)

\* a product that takes only the first interpretation of the inner element
PairsFirst(A, B) == [i \in 1..Len(A) |-> <<A[i], B[1]>>]

\* for a in A: for b in B: yield <<a, b>>
RECURSIVE Pairs(_, _)
Pairs(A, B) ==
    IF A = <<>> THEN <<>>
    ELSE [i \in 1..Len(B) |-> <<A[1], B[i]>>] \o Pairs(Tail(A), B)

RECURSIVE Concat(_)
Concat(ss) == IF ss = <<>> THEN <<>> ELSE ss[1] \o Concat(Tail(ss))

RECURSIVE visit_literal(_)
visit_literal(node) ==
    IF node.data = "_ambig"
    THEN Concat([i \in 1..Len(node.children) |-> visit_literal(node.children[i])])
    ELSE CASE node.data = "number" -> <<Num(node.children[1].value)>>
           [] node.data = "naked_string" -> <<Str(node.children[1].value)>>
           [] node.data = "string" ->
                <<Str(SubSeq(node.children[1].value, 2, Len(node.children[1].value) - 1))>>
           [] node.data = "id" -> <<IdV(node.children[1].value)>>
           [] OTHER -> <<>>

\* dfs of visit_literal_list; idx is the 1-based position of the element
RECURSIVE ListDfs(_, _)
ListDfs(node, idx) ==
    IF idx < Len(node.children)
    THEN LET ps == Pairs(ListDfs(node, idx + 1), visit_literal(node.children[idx]))
         IN  [i \in 1..Len(ps) |-> <<ps[i][2]>> \o ps[i][1]]
    ELSE IF idx = Len(node.children)
    THEN LET ls == visit_literal(node.children[idx])
         IN  [i \in 1..Len(ls) |-> <<ls[i]>>]
    ELSE <<>>

visit_literal_list(node) == ListDfs(node, 1)

\* combine of visit_literal_map: a copy of m with k set to v
combine(k, v, m) == [x \in (DOMAIN m) \cup {k} |-> IF x = k THEN v ELSE m[x]]

\* dfs of visit_literal_map; idx is the 1-based position of the key
RECURSIVE MapDfs(_, _)
MapDfs(node, idx) ==
    IF idx < Len(node.children) - 1
    THEN LET ps == Pairs(MapDfs(node, idx + 2), visit_literal(node.children[idx + 1]))
         IN  [i \in 1..Len(ps) |->
                combine(node.children[idx].children[1].value, ps[i][2], ps[i][1])]
    ELSE IF idx = Len(node.children) - 1
    THEN LET ls == visit_literal(node.children[idx + 1])
         IN  [i \in 1..Len(ls) |->
                [x \in {node.children[idx].children[1].value} |-> ls[i]]]
    ELSE <<>>

visit_literal_map(node) == MapDfs(node, 1)

\* The argument pair of an Expression: (list or None, map or None).
ArgPair(haslist, list, hasmap, map) ==
    [haslist |-> haslist, list |-> list, hasmap |-> hasmap, map |-> map]

NoArgPair == ArgPair(FALSE, <<>>, FALSE, <<>>)

RECURSIVE visit_args(_)
visit_args(node) ==
    IF node.data = "_ambig"
    THEN Concat([i \in 1..Len(node.children) |-> visit_args(node.children[i])])
    ELSE IF Len(node.children) = 2
    THEN LET ps == Pairs(visit_literal_list(node.children[1]),
                         visit_literal_map(node.children[2]))
         IN  [i \in 1..Len(ps) |-> ArgPair(TRUE, ps[i][1], TRUE, ps[i][2])]
    ELSE IF node.children[1].data = "literal_list"
    THEN LET ls == visit_literal_list(node.children[1])
         IN  [i \in 1..Len(ls) |-> ArgPair(TRUE, ls[i], FALSE, <<>>)]
    ELSE LET ms == visit_literal_map(node.children[1])
         IN  [i \in 1..Len(ms) |-> ArgPair(FALSE, <<>>, TRUE, ms[i])]

\* "_".join of the words of the method name
RECURSIVE JoinWords(_)
JoinWords(ws) ==
    IF Len(ws) = 1 THEN ws[1].children[1].value
    ELSE ws[1].children[1].value \o "_" \o JoinWords(Tail(ws))

visit_method(node) == JoinWords(node.children)

visit_target(node) ==
    IF node.data # "target" \/ Len(node.children) = 0 THEN NoName
    ELSE node.children[1].children[1].value

visit_assignment(node) ==
    IF node.data # "assignment" \/ Len(node.children) = 0 THEN NoName
    ELSE node.children[1].children[1].value

Expression(method, args, tgt, assignment) ==
    [method |-> method, args |-> args, target |-> tgt, assignment |-> assignment]

\* the while loop of visit_start; idx is the 1-based position of the method node
RECURSIVE StartLoop(_, _, _, _, _)
StartLoop(node, idx, idx_term, tgt, assignment) ==
    IF idx > idx_term THEN <<>>
    ELSE LET method == visit_method(node.children[idx])
         IN  IF idx < Len(node.children) /\ node.children[idx + 1].data = "args"
             THEN LET as == visit_args(node.children[idx + 1])
                  IN  [i \in 1..Len(as) |-> Expression(method, as[i], tgt, assignment)]
                      \o StartLoop(node, idx + 2, idx_term, tgt, assignment)
             ELSE <<Expression(method, NoArgPair, tgt, assignment)>>
                  \o StartLoop(node, idx + 1, idx_term, tgt, assignment)

RECURSIVE visit_start(_)
visit_start(node) ==
    IF node.data = "_ambig"
    THEN Concat([i \in 1..Len(node.children) |-> visit_start(node.children[i])])
    ELSE LET tgt == visit_target(node.children[1])
             assignment == visit_assignment(node.children[Len(node.children)])
         IN  StartLoop(node,
                       IF tgt # NoName THEN 2 ELSE 1,
                       IF assignment = NoName THEN Len(node.children)
                                              ELSE Len(node.children) - 1,
                       tgt, assignment)

ParseFails(text) == LarkParse(text, "forward").data = "error"

\* Parser.parse: the candidate expressions of a statement, in generation order
ParseStatement(text, order) ==
    IF ParseFails(text) THEN <<>> ELSE visit_start(LarkParse(text, order))

\* the candidates of every statement of the model
Candidates == [o \in Orders |-> [t \in Statements |-> ParseStatement(t, o)]]

Parse(text, order) == Candidates[order][text]

----------------------------------------------------------------------------
(* Operation tables: what hasattr/getattr and inspect.signature see *)

\* the factory registry (Interpreter._apps)
Apps == {"widgets"}

Sig(params, required) == [params |-> params, required |-> required]

\* the public methods of Interpreter, with the parameters after self and the
\* number of parameters that have no default
InterpreterOps ==
    [create |-> Sig(<<"name">>, 1),
     delete |-> Sig(<<"name">>, 1),
     drop_target |-> Sig(<<>>, 0),
     clear_session |-> Sig(<<>>, 0),
     save_session |-> Sig(<<"path">>, 0),
     list |-> Sig(<<>>, 0),
     show |-> Sig(<<"var_or_ref">>, 1),
     use |-> Sig(<<"varname">>, 1),
     options |-> Sig(<<"obj">>, 0),
     exit |-> Sig(<<>>, 0)]

\* the operations of the application objects the widgets factory produces
WidgetOps ==
    [greet |-> Sig(<<"name">>, 1),
     ping |-> Sig(<<>>, 0),
     count |-> Sig(<<>>, 0),
     boom |-> Sig(<<>>, 0)]

NoOps == [x \in {} |-> Sig(<<>>, 0)]

\* the callable public attributes of an object
OpsOf(obj) ==
    CASE obj.kind = "interpreter" -> InterpreterOps
      [] obj.kind = "appobj" /\ obj.s = "widgets" -> WidgetOps
      [] OTHER -> NoOps

\* InterpretableWrapper.__builtin
WrapperBuiltin == {"options"}

----------------------------------------------------------------------------
(* Binding: interpreter.py, InterpretableWrapper.bind and _resolve_* *)

\* an argument mismatch ranked behind a missing method
PriorityArgumentsLast == 30 + 10

PriorityDefault == 100
PriorityNoMethod == 20
PriorityNoTarget == 20
PriorityArguments == 10

\* InterpException(msg, priority); the message is its kind and the name it is about
Failure(kind, about, priority) == [kind |-> kind, about |-> about, priority |-> priority]

NoFailure == Failure("none", "", 0)

BoundExpression(recv, owner, method, sig, args, kwargs, assignment) ==
    [recv |-> recv, owner |-> owner, method |-> method, sig |-> sig,
     args |-> args, kwargs |-> kwargs, assignment |-> assignment]

NoBound == BoundExpression(NoneV, "", "", Sig(<<>>, 0), <<>>, <<>>, NoName)

\* the outcome of one attempt: a bound call, an InterpException, or another exception
Ok(b) == [status |-> "bound", bound |-> b, failure |-> NoFailure]
Raise(f) == [status |-> "failed", bound |-> NoBound, failure |-> f]
Crash == [status |-> "crashed", bound |-> NoBound, failure |-> NoFailure]

\* Signature.bind(*args, **kwargs) raises no TypeError
SigBinds(sig, args, kwargs) ==
    /\ Len(args) <= Len(sig.params)
    /\ \A k \in DOMAIN kwargs :
          \E i \in 1..Len(sig.params) : sig.params[i] = k /\ i > Len(args)
    /\ \A i \in 1..sig.required :
          i <= Len(args) \/ sig.params[i] \in DOMAIN kwargs

\* InterpretableWrapper.bind
WrapperBind(w, method, args, kwargs, assignment) ==
    LET obj == Unwrap(w)
        onObj == method \in DOMAIN OpsOf(obj)
        onWrapper == ~onObj /\ method \in WrapperBuiltin
        sig == IF onObj THEN OpsOf(obj)[method] ELSE Sig(<<>>, 0)
    IN  IF ~onObj /\ ~onWrapper
        THEN Raise(Failure("UnknownMethod", method, PriorityNoMethod))
        ELSE IF SigBinds(sig, args, kwargs)
        THEN Ok(BoundExpression(w, IF onObj THEN "object" ELSE "wrapper",
                                method, sig, args, kwargs, assignment))
        ELSE Raise(Failure("ArgumentMismatch", method, PriorityArguments))

\* resolve_id of _resolve_references, for an Id whose variable exists
ResolveId(v, env) ==
    IF v.kind = "id"
    THEN IF IsInterpretable(env[v.s]) THEN Unwrap(env[v.s]) ELSE env[v.s]
    ELSE v

Unresolved(v, env) == v.kind = "id" /\ v.s \notin DOMAIN env

\* Interpreter._resolve_references: the resolved arguments, or the exception for
\* the first Id that names no variable
ResolveReferences(a, env) ==
    LET badArgs == {i \in 1..Len(a.list) : Unresolved(a.list[i], env)}
        badKeys == {k \in DOMAIN a.map : Unresolved(a.map[k], env)}
        first == CHOOSE i \in badArgs : \A j \in badArgs : i <= j
    IN  IF badArgs # {}
        THEN [failed |-> TRUE, args |-> <<>>, kwargs |-> <<>>,
              failure |-> Failure("UnknownVariable", a.list[first].s, PriorityDefault)]
        ELSE IF badKeys # {}
        THEN [failed |-> TRUE, args |-> <<>>, kwargs |-> <<>>,
              failure |-> Failure("UnknownVariable",
                                  a.map[CHOOSE k \in badKeys : TRUE].s, PriorityDefault)]
        ELSE [failed |-> FALSE,
              args |-> [i \in 1..Len(a.list) |-> ResolveId(a.list[i], env)],
              kwargs |-> [k \in DOMAIN a.map |-> ResolveId(a.map[k], env)],
              failure |-> NoFailure]

\* candidate.bind(exp.method, *refs(), assignment=exp.assignment)
BindOn(w, exp, env) ==
    LET refs == ResolveReferences(exp.args, env)
    IN  IF refs.failed THEN Raise(refs.failure)
        ELSE WrapperBind(w, exp.method, refs.args, refs.kwargs, exp.assignment)

\* lines 165-166: sorted() returns a new list that is dropped, so ex[0] is the
\* first exception that was caught
RaisedOf(ex) == ex[1]

\* a binding that tries the interpreter before the active target
ImplicitBindSelfFirst(exp, env, tgt) ==
    LET candidates == SelectSeq(<<Val("iself", "", 0), tgt>>, IsInterpretable)
        tries == [i \in 1..Len(candidates) |-> BindOn(candidates[i], exp, env)]
        hits == {i \in 1..Len(tries) : tries[i].status = "bound"}
        firstHit == CHOOSE i \in hits : \A j \in hits : i <= j
    IN  IF hits # {} THEN tries[firstHit]
        ELSE Raise(tries[1].failure)

\* a binding whose receiver order changes from one statement to the next
ImplicitBindByTurn(exp, env, tgt) ==
    LET candidates == SelectSeq(IF accepted % 2 = 0 THEN <<tgt, Val("iself", "", 0)>>
                                ELSE <<Val("iself", "", 0), tgt>>, IsInterpretable)
        tries == [i \in 1..Len(candidates) |-> BindOn(candidates[i], exp, env)]
        hits == {i \in 1..Len(tries) : tries[i].status = "bound"}
        firstHit == CHOOSE i \in hits : \A j \in hits : i <= j
    IN  IF hits # {} THEN tries[firstHit]
        ELSE Raise(tries[1].failure)

\* lines 156-166: bind against the current target, then against the interpreter
ImplicitBind(exp, env, tgt) ==
    LET candidates == SelectSeq(<<tgt, ISelf>>, IsInterpretable)
        tries == [i \in 1..Len(candidates) |-> BindOn(candidates[i], exp, env)]
        hits == {i \in 1..Len(tries) : tries[i].status = "bound"}
        firstHit == CHOOSE i \in hits : \A j \in hits : i <= j
        ex == [i \in 1..Len(tries) |-> tries[i].failure]
    IN  IF hits # {} THEN tries[firstHit]
        ELSE Raise(RaisedOf(ex))

\* lines 146-152: bind against the variable the target clause names
ExplicitBind(exp, env) ==
    IF exp.target \notin DOMAIN env
    THEN Raise(Failure("UnknownTarget", exp.target, PriorityNoTarget))
    ELSE IF ~IsInterpretable(env[exp.target]) THEN Crash
    ELSE BindOn(env[exp.target], exp, env)

\* Interpreter._resolve_expression
ResolveExpression(exp, env, tgt) ==
    IF exp.target # NoName THEN ExplicitBind(exp, env)
    ELSE ImplicitBind(exp, env, tgt)

\* bind() of __call__: (bound, priority, message)
Binding(bound, priority, msg) == [bound |-> bound, priority |-> priority, msg |-> msg]

BindCandidate(exp, env, tgt) ==
    LET r == ResolveExpression(exp, env, tgt)
    IN  IF r.status = "bound"
        THEN Binding(r.bound, 0, Failure("success", "", 0))
        ELSE Binding(NoBound, r.failure.priority, r.failure)

\* some candidate raises an exception that bind() does not catch
BindCrashes(exps, env, tgt) ==
    \E i \in 1..Len(exps) :
        exps[i].target # NoName /\ ResolveExpression(exps[i], env, tgt).status = "crashed"

\* an insertion that is not stable: b goes in front of the entries with its key
RECURSIVE InsertBeforeEqual(_, _)
InsertBeforeEqual(b, sorted) ==
    IF sorted = <<>> THEN <<b>>
    ELSE IF b.priority <= sorted[1].priority THEN <<b>> \o sorted
    ELSE <<sorted[1]>> \o InsertBeforeEqual(b, Tail(sorted))

\* insert b behind every entry whose key is not greater: a stable insertion
RECURSIVE InsertByPriority(_, _)
InsertByPriority(b, sorted) ==
    IF sorted = <<>> THEN <<b>>
    ELSE IF b.priority < sorted[1].priority THEN <<b>> \o sorted
    ELSE <<sorted[1]>> \o InsertByPriority(b, Tail(sorted))

\* sorted(..., key=lambda x: x[1]): stable, ascending
RECURSIVE SortByPriority(_)
SortByPriority(bs) ==
    IF bs = <<>> THEN <<>>
    ELSE InsertByPriority(bs[Len(bs)], SortByPriority(SubSeq(bs, 1, Len(bs) - 1)))

\* line 195: the bindings of all candidates of the statement, best first
BindAll(exps, env, tgt) ==
    SortByPriority([i \in 1..Len(exps) |-> BindCandidate(exps[i], env, tgt)])

\* lines 187-195: parse, then bind and sort
Bindings(text, order, env, tgt) == BindAll(Parse(text, order), env, tgt)

----------------------------------------------------------------------------
(* The environment and the built-in operations *)

Env(vs, tgt, log) == [vars |-> vs, target |-> tgt, session |-> log]

\* d[k] = v
Put(d, k, v) == [x \in (DOMAIN d) \cup {k} |-> IF x = k THEN v ELSE d[x]]

\* del d[k]
Del(d, k) == [x \in (DOMAIN d) \ {k} |-> d[x]]

\* name in self._vars, for an argument of any type
IsVariable(name, env) == name.kind = "str" /\ name.s \in DOMAIN env

\* the value a parameter of the bound call receives
Param(b, i) ==
    IF i <= Len(b.args) THEN b.args[i]
    ELSE IF b.sig.params[i] \in DOMAIN b.kwargs THEN b.kwargs[b.sig.params[i]]
    ELSE NoneV

\* use that assigns previousTarget before it looks the name up
UseVarsEager(env, tgt, varname) == Put(env, "previousTarget", tgt)

\* use that assigns previousTarget after it has switched the target
UseVarsLate(env, tgt, varname) ==
    IF varname.kind = "str" /\ varname.s \in DOMAIN env THEN Put(env, "previousTarget", env[varname.s]) ELSE env

\* a use that also records the new target under a second name
UseVarsAlias(env, tgt, varname) ==
    IF varname.kind = "str" /\ varname.s \in DOMAIN env
    THEN Put(Put(env, "previousTarget", tgt), "currentTarget", env[varname.s])
    ELSE env

\* Interpreter.use: the variables and the target after use(varname), which raises
\* when varname is no variable
UseVars(env, tgt, varname) ==
    IF IsVariable(varname, env) THEN Put(env, "previousTarget", tgt) ELSE env

\* a use that targets the object inside the wrapper the variable holds
UseTargetUnwrapped(env, tgt, varname) ==
    IF IsVariable(varname, env) THEN Unwrap(env[varname.s]) ELSE tgt

\* a use that stores previousTarget but keeps the target
UseTargetKeep(env, tgt, varname) == tgt

UseTarget(env, tgt, varname) ==
    IF IsVariable(varname, env) THEN UseVars(env, tgt, varname)[varname.s] ELSE tgt

\* a delete that passes over a name that is no variable
DeleteNeverRaises(env, name) == FALSE

\* Interpreter.delete: delete(name) raises when name is no variable
DeleteRaises(env, name) == ~IsVariable(name, env)

\* a delete that empties the variable map
DeleteVarsAll(env, name) == IF IsVariable(name, env) THEN <<>> ELSE env

\* Interpreter.delete: the variables after delete(name)
DeleteVars(env, name) == IF IsVariable(name, env) THEN Del(env, name.s) ELSE env

\* a drop that leaves no target at all
DropTargetNone == NoneV

\* Interpreter.drop_target
DropTarget == ISelf

\* Interpreter.clear_session
ClearSession(log) == <<>>

\* the statement inserted at the head of the log
AppendStatementFront(log, text) == <<text>> \o log

\* line 204: self._session.append(statement)
AppendStatement(log, text) == Append(log, text)

\* the append done whether the call raised or not
LogAfterCallAlways(log, text, raised) == Append(log, text)

\* the log replaced by the statement instead of extended by it
LogAfterCallReplace(log, text, raised) == IF raised THEN log ELSE <<text>>

\* lines 203-204: the append is skipped when the call raised
LogAfterCall(log, text, raised) == IF raised THEN log ELSE AppendStatement(log, text)

\* an assignment that wraps every result that is no capability object
StoredWrapped(r, id) == IF IsInterpretable(r) THEN r ELSE Wrapped(r, id)

\* an assignment that stores a copy of a capability object
StoredCopy(r, id) ==
    IF r.kind = "app" THEN AppWrapper(r.s, id)
    ELSE IF r.kind \in {"str", "list", "dict", "set"} \/ IsInterpretable(r) THEN r
    ELSE Wrapped(r, id)

\* an assignment that stores numbers as they are
StoresPrimitives(r) == r.kind \in {"str", "num", "list", "dict", "set"} \/ IsInterpretable(r)

\* lines 179-182: what the assignment clause stores for a result
StoresVerbatim(r) == r.kind \in {"str", "list", "dict", "set"} \/ IsInterpretable(r)
Stored(r, id) == IF StoresVerbatim(r) THEN r ELSE Wrapped(r, id)

\* a python list or set whose elements are given; ListV(s) names a list of texts
ListOf(items) == [kind |-> "list", s |-> "", n |-> 0, items |-> items]
SetOf(items) == [kind |-> "set", s |-> "", n |-> 0, items |-> items]
DictV == Val("dict", "", 0)

\* len(var) = 0, for a list or a set
IsEmpty(v) == "items" \in DOMAIN v /\ v.items = <<>>

\* len(var) > 0 and isinstance(var[0], list)
FirstIsList(v) == "items" \in DOMAIN v /\ v.items # <<>> /\ v.items[1].kind = "list"

\* textwrap.wrap(s) = []: the text has no word
Blank(s) == s \in {"", " "}

\* lines 243-247: a text that names a variable is replaced by the variable's value
Looked(r, env) == IF r.kind = "str" /\ r.s \in DOMAIN env THEN env[r.s] ELSE r

\* lines 256-266: the form the value is printed in; a loop over no element and
\* the wrapping of a text without words print nothing
Form(var) ==
    IF var.kind = "list" /\ FirstIsList(var) THEN "table"
    ELSE IF var.kind \in {"list", "set"} THEN (IF IsEmpty(var) THEN "nothing" ELSE "lines")
    ELSE IF var.kind = "str" THEN (IF Blank(var.s) THEN "nothing" ELSE "wrapped")
    ELSE IF var.kind # "none" THEN "generic"
    ELSE "<none>"

Rendering(var) == [form |-> Form(var), val |-> var]

\* Interpreter.show: the form the value is rendered in
Show(r, env) == Rendering(Looked(r, env))

\* the text of a value inside an f-string
Text(v) == IF v.kind \in {"str", "num"} THEN v.s ELSE v.kind

\* the names of a registry, as the diagnostic of create lists them
RECURSIVE KeysText(_)
KeysText(S) ==
    IF S = {} THEN ""
    ELSE LET a == CHOOSE x \in S : TRUE
         IN  a \o (IF S \ {a} = {} THEN "" ELSE ", " \o KeysText(S \ {a}))

\* a create that constructs an object for every name
CreateNeverRaises(name) == FALSE

\* Interpreter.create: create(name) raises when name is no key of the registry
CreateRaises(name) == ~(name.kind = "str" /\ name.s \in Apps)

\* the InterpException create raises: it names the request and lists the registry
CreateFailure(name) ==
    Failure("UnknownApp", Text(name) \o ". Options are [" \o KeysText(Apps) \o "]",
            PriorityDefault)

----------------------------------------------------------------------------
(* The visitors of the parser applied to a literal, a literal list, a      *)
(* literal map and an argument clause on their own, as the tests of the    *)
(* parser apply them (Lark(GRAMMAR, start=...)).                           *)

Chars == {"+", "-", "5", ".", "e", "_", "'"}

\* the sequences over S of length lo..hi
SeqsOf(S, lo, hi) == UNION {[1..n -> S] : n \in lo..hi}

Lexemes == SeqsOf(Chars, 1, MaxLexeme)

\* the lexemes the lists and maps of the model are made of
LexPool == {<<"5">>, <<"+", "5">>, <<"-", "5">>, <<"e">>, <<"_">>, <<"'", "e", "'">>}

Keys == {"k", "j"}

Pair(k, cs) == [key |-> k, lex |-> cs]

Input(form, cs, list, map) == [form |-> form, lex |-> cs, list |-> list, map |-> map]

NoInput == Input("none", <<>>, <<>>, <<>>)

\* the maps of the model: pairs with distinct keys
Maps ==
    {m \in SeqsOf({Pair(k, cs) : k \in Keys, cs \in LexPool}, 1, MaxMap) :
        \A i, j \in 1..Len(m) : i # j => m[i].key # m[j].key}

Inputs ==
    {Input("literal", cs, <<>>, <<>>) : cs \in Lexemes}
    \cup {Input("list", <<>>, l, <<>>) : l \in SeqsOf(LexPool, 1, MaxList)}
    \cup {Input("map", <<>>, <<>>, m) : m \in Maps}
    \cup {Input("args", <<>>, l, m) : l \in SeqsOf(LexPool, 1, MaxList - 1),
                                      m \in {mm \in Maps : Len(mm) = 1}}

\* the tree of literal_list: one child per element
ListTree(list) == Tree("literal_list", [i \in 1..Len(list) |-> LexemeForest(list[i])])

\* the tree of literal_map: the children are id, literal, id, literal, ...
MapTree(map) ==
    Tree("literal_map",
         [i \in 1..(2 * Len(map)) |->
             IF i % 2 = 1 THEN IdTree(map[(i + 1) \div 2].key)
             ELSE LexemeForest(map[i \div 2].lex)])

\* the tree of args: literal_list "and" literal_map
ArgsOfBoth(list, map) == Tree("args", <<ListTree(list), MapTree(map)>>)

Outcome(done, error, out) == [done |-> done, error |-> error, out |-> out]

NotExpanded == Outcome(FALSE, FALSE, <<>>)

\* the parser raised a LarkError: no alternative derives the text
LarkError == Outcome(TRUE, TRUE, <<>>)

\* list(visit(tree))
Yields(out) == Outcome(TRUE, FALSE, out)

\* the visitors read the tree they are given and nothing of the interpreter
Untouched ==
    UNCHANGED <<vars, target, session, pc, stmt, bindings, result, nextId, outcome,
                report, shown, calls, pre, accepted, recent, shell, prior, input,
                menu, rootOrder>>

\* test_literal_*: visit_literal on the tree of one lexeme
ExpandLiteral ==
    /\ input.form = "literal"
    /\ ~expanded.done
    /\ expanded' = IF Alternatives(input.lex) = <<>> THEN LarkError
                   ELSE Yields(visit_literal(LexemeForest(input.lex)))
    /\ Untouched

\* test_literal_list: visit_literal_list on the tree of a list
ExpandList ==
    /\ input.form = "list"
    /\ ~expanded.done
    /\ expanded' = Yields(visit_literal_list(ListTree(input.list)))
    /\ Untouched

\* test_literal_map: visit_literal_map on the tree of a map
ExpandMap ==
    /\ input.form = "map"
    /\ ~expanded.done
    /\ expanded' = Yields(visit_literal_map(MapTree(input.map)))
    /\ Untouched

\* test_args_map_and_list: visit_args on the tree of a list and a map
ExpandArgs ==
    /\ input.form = "args"
    /\ ~expanded.done
    /\ expanded' = Yields(visit_args(ArgsOfBoth(input.list, input.map)))
    /\ Untouched

----------------------------------------------------------------------------
(* The session *)


\* the interpreter after construction (lines 98-104), before the first statement
Constructed ==
    /\ vars = <<>>
    /\ target = ISelf
    /\ session = <<>>
    /\ pc = "idle"
    /\ stmt = ""
    /\ bindings = <<>>
    /\ result = NoneV
    /\ nextId = 1
    /\ outcome = "none"
    /\ report = NoFailure
    /\ shown = <<>>
    /\ calls = <<>>
    /\ pre = Env(<<>>, ISelf, <<>>)
    /\ accepted = 0
    /\ recent = <<>>
    /\ shell = "reading"
    /\ prior = "none"

Init ==
    /\ Constructed
    /\ input = NoInput
    /\ expanded = NotExpanded
    /\ menu \in Menus
    /\ rootOrder \in Orders

\* a shell whose interpreter lets the parser's exception through
EscapesParseError(out) == out = "parse_error"

\* Interpreter.__call__, lines 206-211: LarkError, InterpException and every other
\* Exception are caught and printed, so no way a statement ends leaves the call
\* with an exception
Escapes(out) == out \notin {"ok", "nothing", "parse_error", "bind_failed", "exec_failed",
                             "internal_error"}

\* __main__, lines 26-31: an exception that leaves interpreter(statement) ends the
\* loop with exit(1); otherwise the loop reads the next statement
ShellAfter(out) == IF Escapes(out) THEN "exited" ELSE "reading"

Push(w, e) == IF Len(w) >= Window THEN Tail(w) \o <<e>> ELSE w \o <<e>>

Entry(text, tgt, vs) == [stmt |-> text, target |-> tgt, vars |-> vs]

\* the statement ends here without a call: a diagnostic is printed (lines 201-211)
EndsUnbound(text, out, rep) ==
    /\ pc' = "idle"
    /\ outcome' = out
    /\ shell' = ShellAfter(out)
    /\ report' = rep
    /\ bindings' = <<>>
    /\ UNCHANGED <<vars, target, session, nextId, recent>>

\* Interpreter.__call__, lines 187-201: parse the statement, bind every candidate,
\* sort the bindings and pick the first
Submit(text) ==
    /\ shell = "reading"
    /\ pc = "idle"
    /\ accepted < MaxAccepted
    /\ prior' = outcome
    /\ stmt' = text
    /\ pre' = Env(vars, target, session)
    /\ calls' = <<>>
    /\ result' = NoneV
    /\ shown' = <<>>
    /\ UNCHANGED <<accepted, input, expanded, menu, rootOrder>>
    /\ IF ParseFails(text)
       THEN EndsUnbound(text, "parse_error", Failure("ParseError", "", 0))
       ELSE IF BindCrashes(Parse(text, rootOrder), vars, target)
       THEN EndsUnbound(text, "internal_error", Failure("Exception", "", 0))
       ELSE \E bs \in {Bindings(text, rootOrder, vars, target)} :
                IF bs = <<>>
                THEN EndsUnbound(text, "nothing", NoFailure)
                ELSE IF bs[1].priority # 0
                THEN EndsUnbound(text, "bind_failed", bs[1].msg)
                ELSE /\ pc' = "call"
                     /\ outcome' = "pending"
                     /\ report' = NoFailure
                     /\ bindings' = bs
                     /\ UNCHANGED <<vars, target, session, nextId, recent, shell>>

\* the bound call that was selected (binding[0])
Selected == bindings[1].bound

OnInterpreter(m) ==
    /\ pc = "call"
    /\ Unwrap(Selected.recv).kind = "interpreter"
    /\ Selected.owner = "object"
    /\ Selected.method = m

\* the call raised: _call_expression re-raises, __call__ prints (lines 171-174, 208-211)
Raises(f) ==
    /\ pc' = "idle"
    /\ outcome' = "exec_failed"
    /\ shell' = ShellAfter("exec_failed")
    /\ report' = f
    /\ result' = NoneV
    /\ bindings' = <<>>
    /\ session' = LogAfterCall(session, stmt, TRUE)
    /\ UNCHANGED <<nextId, recent>>

\* the call returned r (line 170)
Returns(r) ==
    /\ pc' = "store"
    /\ result' = r
    /\ UNCHANGED <<outcome, report, bindings, recent, shell>>

Called == 
    /\ calls' = Append(calls, Selected)
    /\ UNCHANGED <<stmt, pre, accepted, prior, input, expanded, menu, rootOrder>>

\* Interpreter.create
InvokeCreate ==
    /\ OnInterpreter("create")
    /\ Called
    /\ UNCHANGED shown
    /\ LET name == Param(Selected, 1)
       IN  IF CreateRaises(name)
           THEN /\ Raises(CreateFailure(name))
                /\ UNCHANGED <<vars, target>>
           ELSE /\ Returns(AppWrapper(Text(name), nextId))
                /\ nextId' = nextId + 1
                /\ UNCHANGED <<vars, target, session>>

\* Interpreter.delete
InvokeDelete ==
    /\ OnInterpreter("delete")
    /\ Called
    /\ UNCHANGED shown
    /\ LET name == Param(Selected, 1)
       IN  /\ vars' = DeleteVars(vars, name)
           /\ UNCHANGED target
           /\ IF DeleteRaises(vars, name)
              THEN Raises(Failure("UnknownVariable", Text(name), PriorityDefault))
              ELSE Returns(NoneV) /\ UNCHANGED <<session, nextId>>

\* Interpreter.use
InvokeUse ==
    /\ OnInterpreter("use")
    /\ Called
    /\ UNCHANGED shown
    /\ LET varname == Param(Selected, 1)
       IN  /\ vars' = UseVars(vars, target, varname)
           /\ target' = UseTarget(vars, target, varname)
           /\ IF IsVariable(varname, vars)
              THEN Returns(NoneV) /\ UNCHANGED <<session, nextId>>
              ELSE Raises(Failure("UnknownVariable", Text(varname), PriorityDefault))

\* Interpreter.drop_target
InvokeDropTarget ==
    /\ OnInterpreter("drop_target")
    /\ Called
    /\ UNCHANGED shown
    /\ Returns(NoneV)
    /\ target' = DropTarget
    /\ UNCHANGED <<vars, session, nextId>>

\* Interpreter.clear_session
InvokeClearSession ==
    /\ OnInterpreter("clear_session")
    /\ Called
    /\ UNCHANGED shown
    /\ Returns(NoneV)
    /\ session' = ClearSession(session)
    /\ UNCHANGED <<vars, target, nextId>>

\* a list that also drops the active target
InvokeListAndDrop ==
    /\ pc = "call"
    /\ Unwrap(Selected.recv).kind = "interpreter"
    /\ Selected.owner = "object"
    /\ Selected.method = "list"
    /\ calls' = Append(calls, Selected)
    /\ pc' = "store"
    /\ result' = Val("list", "apps", 0)
    /\ target' = Val("iself", "", 0)
    /\ UNCHANGED <<vars, session, nextId, shown, outcome, report, bindings, recent,
                   shell, prior, input, expanded,
                   stmt, pre, accepted, menu, rootOrder>>

\* Interpreter.list
InvokeList ==
    /\ OnInterpreter("list")
    /\ Called
    /\ Returns(ListV("apps"))
    /\ UNCHANGED <<vars, target, session, nextId, shown>>

\* Interpreter.show: renders its argument and returns None
InvokeShow ==
    /\ OnInterpreter("show")
    /\ Called
    /\ Returns(NoneV)
    /\ shown' = Append(shown, Show(Param(Selected, 1), vars))
    /\ UNCHANGED <<vars, target, session, nextId>>

\* InterpretableWrapper.options returns a list of lines about the wrapped object,
\* Interpreter.options a text about the active target and the variables
InvokeOptions ==
    /\ pc = "call"
    /\ Selected.method = "options"
    /\ Selected.owner = "wrapper" \/ Unwrap(Selected.recv).kind = "interpreter"
    /\ Called
    /\ Returns(IF Selected.owner = "wrapper"
               THEN ListV("options of " \o Unwrap(Selected.recv).kind)
               ELSE Str("options of " \o Unwrap(target).kind))
    /\ UNCHANGED <<vars, target, session, nextId, shown>>

\* Interpreter.exit: exit(0) raises SystemExit, which no handler of _call_expression,
\* __call__ or the read-eval loop catches: the process ends
InvokeExit ==
    /\ OnInterpreter("exit")
    /\ Called
    /\ pc' = "idle"
    /\ outcome' = "exited"
    /\ shell' = ShellAfter("exited")
    /\ report' = NoFailure
    /\ result' = NoneV
    /\ bindings' = <<>>
    /\ UNCHANGED <<vars, target, session, nextId, shown, recent>>

\* an operation of a widgets object: greet returns a greeting, ping returns
\* "pong", count returns a number, boom raises
InvokeWidget ==
    /\ pc = "call"
    /\ Unwrap(Selected.recv).kind = "appobj"
    /\ Selected.owner = "object"
    /\ Called
    /\ UNCHANGED shown
    /\ CASE Selected.method = "greet" ->
                /\ Returns(Str("hello " \o Text(Param(Selected, 1))))
                /\ UNCHANGED <<vars, target, session, nextId>>
         [] Selected.method = "ping" ->
                /\ Returns(Str("pong"))
                /\ UNCHANGED <<vars, target, session, nextId>>
         [] Selected.method = "count" ->
                /\ Returns(Num("3"))
                /\ UNCHANGED <<vars, target, session, nextId>>
         [] OTHER ->
                /\ Raises(Failure("ExecutionError", Selected.method, PriorityDefault))
                /\ UNCHANGED <<vars, target>>

\* _call_expression, lines 178-184, then line 204: store or show the result and
\* append the statement to the log
Store ==
    /\ pc = "store"
    /\ IF Selected.assignment # NoName
       THEN /\ vars' = Put(vars, Selected.assignment, Stored(result, nextId))
            /\ nextId' = IF StoresVerbatim(result) THEN nextId ELSE nextId + 1
            /\ UNCHANGED shown
       ELSE /\ shown' = Append(shown, Show(result, vars))
            /\ UNCHANGED <<vars, nextId>>
    /\ session' = LogAfterCall(session, stmt, FALSE)
    /\ accepted' = accepted + 1
    /\ pc' = "idle"
    /\ outcome' = "ok"
    /\ shell' = ShellAfter("ok")
    /\ bindings' = <<>>
    /\ recent' = Push(recent, Entry(stmt, target, vars'))
    /\ UNCHANGED <<target, stmt, result, report, calls, pre, prior, input, expanded,
                   menu, rootOrder>>

Next ==
    \/ \E text \in menu : Submit(text)
    \/ InvokeCreate
    \/ InvokeDelete
    \/ InvokeUse
    \/ InvokeDropTarget
    \/ InvokeClearSession
    \/ InvokeList
    \/ InvokeShow
    \/ InvokeOptions
    \/ InvokeExit
    \/ InvokeWidget
    \/ Store

Spec == Init /\ [][Next]_svars

\* the visitors on their own: the interpreter stays as constructed
InitExpand ==
    /\ Constructed
    /\ input \in Inputs
    /\ expanded = NotExpanded
    /\ menu = {}
    /\ rootOrder = "forward"

NextExpand ==
    \/ ExpandLiteral
    \/ ExpandList
    \/ ExpandMap
    \/ ExpandArgs

SpecExpand == InitExpand /\ [][NextExpand]_svars

\* the values an operation of an application returns
Returned ==
    {NoneV, Str(""), Str("pong"), Str("a b"), Num("0"), Num("3"), DictV,
     ListOf(<<>>), ListOf(<<Str("a")>>), ListV("apps"), SetOf(<<>>), SetOf(<<Str("a")>>),
     ListOf(<<ListOf(<<Str("h")>>), ListOf(<<Str("r")>>)>>),
     ListOf(<<ListOf(<<>>)>>)}

\* the variables at the time of the call
ShowEnvs ==
    {Put(<<>>, "w", AppWrapper("widgets", 1)),
     Put(Put(<<>>, "w", AppWrapper("widgets", 1)), "pong", ListOf(<<Str("a")>>)),
     Put(Put(<<>>, "w", AppWrapper("widgets", 1)), "pong", Str(""))}

\* line 170: r = method(), for an operation of an application object, which
\* returns any python value
InvokeApplication ==
    /\ pc = "call"
    /\ Unwrap(Selected.recv).kind = "appobj"
    /\ Selected.owner = "object"
    /\ Selected.method = "report"
    /\ Called
    /\ \E r \in Returned : Returns(r)
    /\ UNCHANGED <<vars, target, session, nextId, shown>>

\* a session in which `report` or `report as r` was bound to an application object
InitShow ==
    /\ vars \in ShowEnvs
    /\ target = AppWrapper("widgets", 1)
    /\ session = <<>>
    /\ pc = "call"
    /\ stmt \in {"report", "report as r"}
    /\ bindings = <<Binding(BoundExpression(target, "object", "report", Sig(<<>>, 0),
                                            <<>>, <<>>,
                                            IF stmt = "report" THEN NoName ELSE "r"),
                            0, Failure("success", "", 0))>>
    /\ result = NoneV
    /\ nextId = 2
    /\ outcome = "pending"
    /\ report = NoFailure
    /\ shown = <<>>
    /\ calls = <<>>
    /\ pre = Env(vars, target, session)
    /\ accepted = 0
    /\ recent = <<>>
    /\ shell = "reading"
    /\ prior = "none"
    /\ input = NoInput
    /\ expanded = NotExpanded
    /\ menu = {}
    /\ rootOrder = "forward"

NextShow ==
    \/ InvokeApplication
    \/ Store

SpecShow == InitShow /\ [][NextShow]_svars

----------------------------------------------------------------------------
(* Properties *)

\* the last statement has run to its end
Finished == pc = "idle" /\ outcome # "none"

\* what _resolve_expression did for each candidate of the last statement, in
\* generation order, in the environment the statement was submitted in
Attempts ==
    LET exps == Parse(stmt, rootOrder)
    IN  [i \in 1..Len(exps) |-> ResolveExpression(exps[i], pre.vars, pre.target)]

Hits == {i \in 1..Len(Attempts) : Attempts[i].status = "bound"}

First(S) == CHOOSE i \in S : \A j \in S : i <= j

\* C1: when at least one candidate of a statement binds, exactly one bound call is
\* executed for the statement, and it is the bound call of the earliest candidate,
\* in generation order, that binds; when none binds, no call is executed.
C1_EarliestBindingIsExecuted ==
    /\ pc = "call" => calls = <<>>
    /\ pc = "store" => calls = <<Selected>>
    /\ Finished =>
          IF Hits # {} THEN calls = <<Attempts[First(Hits)].bound>> ELSE calls = <<>>

\* C1 witness: a statement was executed whose first candidate does not bind and
\* two later candidates bind to different calls
C1_Witness ==
    /\ Finished
    /\ outcome = "ok"
    /\ First(Hits) > 1
    /\ \E j \in Hits : Attempts[j].bound # Attempts[First(Hits)].bound

\* the failures every bind attempt for one candidate raised: one for a candidate
\* with a target clause, one per receiver that was tried for a candidate without
AttemptFailures(exp, env, tgt) ==
    IF exp.target # NoName
    THEN LET r == ExplicitBind(exp, env)
         IN  IF r.status = "failed" THEN <<r.failure>> ELSE <<>>
    ELSE LET receivers == SelectSeq(<<tgt, ISelf>>, IsInterpretable)
             tries == [i \in 1..Len(receivers) |-> BindOn(receivers[i], exp, env)]
         IN  [i \in 1..Len(tries) |-> tries[i].failure]

\* all failures raised while the last statement was bound, in the order of the attempts
AllFailures ==
    LET exps == Parse(stmt, rootOrder)
    IN  Concat([i \in 1..Len(exps) |-> AttemptFailures(exps[i], pre.vars, pre.target)])

\* the first failure of fs among those of the lowest priority value
Best(fs) ==
    fs[First({i \in 1..Len(fs) : \A j \in 1..Len(fs) : fs[i].priority <= fs[j].priority})]

\* C2: when no candidate binds, the failure that is reported has the lowest priority
\* value among the failures of all bind attempts made for the statement (against
\* the active target and against the interpreter), the earliest one on a tie.
C2_ReportsBestOfAllAttempts ==
    (Finished /\ outcome = "bind_failed") => report = Best(AllFailures)

\* the failure each candidate of the last statement ended with
CandidateFailures == [i \in 1..Len(Attempts) |-> Attempts[i].failure]

Kinds(fs) == {fs[i].kind : i \in 1..Len(fs)}

\* no candidate of the last statement names a method of a receiver it is bound against
NamesNoMethod ==
    LET exps == Parse(stmt, rootOrder)
    IN  \A i \in 1..Len(exps) :
           /\ exps[i].method \notin WrapperBuiltin
           /\ exps[i].method \notin DOMAIN InterpreterOps
           /\ exps[i].method \notin DOMAIN OpsOf(Unwrap(pre.target))
           /\ exps[i].target \in DOMAIN pre.vars =>
                 exps[i].method \notin DOMAIN OpsOf(Unwrap(pre.vars[exps[i].target]))

\* C3 as stated: among the failures of the candidates, UnknownMethod and
\* UnknownTarget are reported before ArgumentMismatch, and ArgumentMismatch before
\* UnknownVariable; `nonexistent_method 1,2` reports UnknownMethod.
C3_MethodFailuresOutrankArguments ==
    (Finished /\ outcome = "bind_failed") =>
        /\ report.kind =
              IF Kinds(CandidateFailures) \cap {"UnknownMethod", "UnknownTarget"} # {}
              THEN Best(SelectSeq(CandidateFailures,
                        LAMBDA f : f.kind \in {"UnknownMethod", "UnknownTarget"})).kind
              ELSE IF "ArgumentMismatch" \in Kinds(CandidateFailures)
              THEN "ArgumentMismatch"
              ELSE "UnknownVariable"
        /\ stmt = "nonexistent_method 1,2" => report.kind = "UnknownMethod"

\* C3 amended: ArgumentMismatch is reported before UnknownMethod and UnknownTarget,
\* and these before UnknownVariable; a statement that names a method no receiver
\* has never reports ArgumentMismatch, and `nonexistent_method 1,2` always fails
\* to bind and reports UnknownMethod.
C3_ArgumentsOutrankMethodFailures ==
    /\ (Finished /\ outcome = "bind_failed") =>
          /\ report.kind =
                IF "ArgumentMismatch" \in Kinds(CandidateFailures)
                THEN "ArgumentMismatch"
                ELSE IF Kinds(CandidateFailures) \cap {"UnknownMethod", "UnknownTarget"} # {}
                THEN Best(SelectSeq(CandidateFailures,
                          LAMBDA f : f.kind \in {"UnknownMethod", "UnknownTarget"})).kind
                ELSE "UnknownVariable"
          /\ NamesNoMethod => report.kind # "ArgumentMismatch"
    /\ (Finished /\ stmt = "nonexistent_method 1,2") =>
          outcome = "bind_failed" /\ report.kind = "UnknownMethod"

\* C3 witness: a statement failed to bind with candidates that failed with
\* UnknownMethod, ArgumentMismatch and UnknownVariable; ArgumentMismatch is reported
C3_Witness ==
    /\ Finished
    /\ outcome = "bind_failed"
    /\ {"UnknownMethod", "ArgumentMismatch", "UnknownVariable"} \subseteq Kinds(CandidateFailures)
    /\ report.kind = "ArgumentMismatch"

\* the last statement executed the built-in m of the interpreter
Executed(m) ==
    /\ calls # <<>>
    /\ calls[1].method = m
    /\ calls[1].owner = "object"
    /\ Unwrap(calls[1].recv).kind = "interpreter"

Environment == Env(vars, target, session)

\* C4: when the selected bound call raises, the statement ends with an execution
\* error: the call stays the only one executed for the statement, no variable is
\* assigned and the statement is not appended to the log.
C4_RaisingCallEndsStatement ==
    (Finished /\ outcome = "exec_failed") =>
        /\ Hits # {}
        /\ calls = <<Attempts[First(Hits)].bound>>
        /\ bindings = <<>>
        /\ vars = pre.vars
        /\ session = pre.session

\* C4 witness: the call of a statement with an assignment clause raised, a later
\* candidate of the statement had bound as well, and the variable is not assigned
C4_Witness ==
    /\ Finished
    /\ outcome = "exec_failed"
    /\ Cardinality(Hits) >= 2
    /\ calls[1].assignment = "x"
    /\ "x" \notin DOMAIN vars

\* C5: a statement that ends in a parse failure, a binding failure or a failure of
\* the built-ins create, use and delete leaves the variables, the active target
\* and the log as they were.
C5_FailedStatementChangesNothing ==
    (/\ Finished
     /\ \/ outcome \in {"parse_error", "bind_failed", "internal_error"}
        \/ /\ outcome = "exec_failed"
           /\ Executed("create") \/ Executed("use") \/ Executed("delete"))
    => Environment = pre

\* C5 witness: use of an unbound name failed in a session that has variables, a
\* target other than the interpreter and a log
C5_Witness ==
    /\ Finished
    /\ outcome = "exec_failed"
    /\ Executed("use")
    /\ DOMAIN vars # {}
    /\ target # ISelf
    /\ session # <<>>

\* the log when the call of the last statement returned
LogAtReturn == IF Executed("clear_session") THEN <<>> ELSE pre.session

\* C6: a statement is appended to the log if and only if it bound and its call
\* returned without error; the log changes only by an append at its end in the step
\* after the call has returned (or by clear_session during the call), so the
\* entries are in input order.
C6_AppendedIffExecuted ==
    /\ [](Finished =>
            session = IF outcome = "ok" THEN LogAtReturn \o <<stmt>> ELSE pre.session)
    /\ [][session' # session =>
            \/ pc = "store" /\ pc' = "idle" /\ session' = session \o <<stmt>>
            \/ pc = "call" /\ Selected.method = "clear_session" /\ session' = <<>>]_svars

\* C6 witness: a statement was appended behind two earlier, different ones
C6_Witness ==
    /\ Finished
    /\ outcome = "ok"
    /\ Len(session) >= 3
    /\ session = pre.session \o <<stmt>>
    /\ session[Len(session) - 1] # stmt

IsPrefix(a, b) == Len(a) <= Len(b) /\ SubSeq(b, 1, Len(a)) = a

UseStatements == {"use x", "use y", "use previousTarget"}

\* the name a use or delete statement is about
NameOf(text) ==
    CASE text \in {"use x", "delete x"} -> "x"
      [] text = "use y" -> "y"
      [] text = "use previousTarget" -> "previousTarget"
      [] text = "delete z" -> "z"
      [] text \in {"use w", "delete w"} -> "w"
      [] text = "delete g" -> "g"
      [] text = "delete n" -> "n"
      [] text = "delete v" -> "v"
      [] OTHER -> NoName

\* C8: after a successful `use v`, previousTarget holds the target that was active
\* before the statement and the active target is the value of v; when v is not
\* bound, `use v` fails and neither the target nor previousTarget changes.
C8_UseSwitchesTarget ==
    (Finished /\ stmt \in UseStatements) =>
        /\ outcome = "ok" =>
              /\ NameOf(stmt) \in DOMAIN pre.vars
              /\ vars["previousTarget"] = pre.target
              /\ target = vars[NameOf(stmt)]
        /\ NameOf(stmt) \notin DOMAIN pre.vars =>
              /\ outcome = "exec_failed"
              /\ target = pre.target
              /\ vars = pre.vars

\* C8 witness: `use y` switched the target from one object to another
C8_Witness ==
    /\ Finished
    /\ outcome = "ok"
    /\ stmt = "use y"
    /\ pre.target.kind = "app"
    /\ target # pre.target
    /\ vars["previousTarget"] = pre.target

\* C9: after `use a` followed by `use b`, `use previousTarget` makes the object of
\* a the active target again.
C9_UsePreviousTargetRecalls ==
    LET n == Len(recent)
    IN  (/\ Finished
         /\ outcome = "ok"
         /\ n >= 3
         /\ recent[n - 2].stmt \in {"use x", "use y"}
         /\ recent[n - 1].stmt \in {"use x", "use y"}
         /\ recent[n].stmt = "use previousTarget")
        => target = recent[n - 2].target

DeleteStatements == {"delete x", "delete z", "delete w", "delete g", "delete n", "delete v"}

C11_KindsWitness ==
    /\ Finished
    /\ stmt = "delete n"
    /\ outcome = "ok"
    /\ pre.vars["n"].kind = "wrapped:num"
    /\ "g" \in DOMAIN vars
    /\ vars["g"].kind = "str"

\* C12: `drop target` never reports an error, makes the interpreter the active
\* target and leaves the variables alone; executed a second time it yields the
\* target and the variables the first execution left.
C12_DropTargetIsIdempotent ==
    LET n == Len(recent)
    IN  (Finished /\ stmt = "drop target") =>
            /\ outcome = "ok"
            /\ Executed("drop_target")
            /\ target = ISelf
            /\ vars = pre.vars
            /\ (n >= 2 /\ recent[n - 1].stmt = "drop target") =>
                  /\ recent[n].stmt = "drop target"
                  /\ recent[n].target = recent[n - 1].target
                  /\ recent[n].vars = recent[n - 1].vars

\* C12 witness: `drop target` was executed twice in a row, the first time with an
\* application object as the active target
C12_Witness ==
    LET n == Len(recent)
    IN  /\ Finished
        /\ stmt = "drop target"
        /\ n >= 3
        /\ recent[n].stmt = "drop target"
        /\ recent[n - 1].stmt = "drop target"
        /\ recent[n - 2].target.kind = "app"
        /\ target = ISelf

\* the accepted statements before the last statement (the remembered ones)
Before == IF outcome = "ok" THEN SubSeq(recent, 1, Len(recent) - 1) ELSE recent

\* statements that are the name of a zero-argument operation of a widgets object
ZeroArgStatements == {"ping", "boom"}

\* C13: after `create widgets as x` followed by `use x`, a following statement that
\* is only the name of a zero-argument operation of the application is bound with
\* the object created for x as its receiver.
C13_ZeroArgCallUsesCreatedObject ==
    LET m == Len(Before)
    IN  (/\ Finished
         /\ stmt \in ZeroArgStatements
         /\ m >= 2
         /\ Before[m - 1].stmt = "create widgets as x"
         /\ Before[m].stmt = "use x")
        => /\ Len(calls) = 1
           /\ calls[1].method = stmt
           /\ calls[1].owner = "object"
           /\ calls[1].recv = Before[m - 1].vars["x"]
           /\ calls[1].recv.kind = "app"

\* C13 witness: `ping` ran on the second object created for x, right after
\* `create widgets as x` and `use x`
C13_Witness ==
    LET m == Len(Before)
    IN  /\ Finished
        /\ stmt = "ping"
        /\ outcome = "ok"
        /\ m >= 2
        /\ Before[m - 1].stmt = "create widgets as x"
        /\ Before[m].stmt = "use x"
        /\ calls[1].recv = AppWrapper("widgets", 2)

\* the candidates of the last statement that call greet with the identifier alice
GreetById ==
    LET exps == Parse(stmt, rootOrder)
    IN  {i \in 1..Len(exps) : /\ exps[i].method = "greet"
                              /\ exps[i].args.list = <<IdV("alice")>>}

\* C14: with w bound to a widgets object and no variable named alice,
\* `using w, greet alice as g` ends with g bound to the string greet returns for
\* the text "alice": the identifier reading of alice fails to bind and the string
\* reading is the one executed.
C14_GreetAliceBindsString ==
    (/\ Finished
     /\ stmt = "using w, greet alice as g"
     /\ "w" \in DOMAIN pre.vars
     /\ pre.vars["w"].kind = "app"
     /\ "alice" \notin DOMAIN pre.vars)
    => /\ outcome = "ok"
       /\ Len(calls) = 1
       /\ calls[1].method = "greet"
       /\ calls[1].recv = pre.vars["w"]
       /\ calls[1].args = <<Str("alice")>>
       /\ calls[1].kwargs = <<>>
       /\ vars["g"] = Str("hello alice")
       /\ GreetById # {}
       /\ \A i \in GreetById :
             /\ Attempts[i].status = "failed"
             /\ Attempts[i].failure.kind = "UnknownVariable"
             /\ Attempts[i].failure.about = "alice"

\* C14 witness: directly after `create widgets as w`, `using w, greet alice as g`
\* bound g
C14_Witness ==
    /\ Finished
    /\ stmt = "using w, greet alice as g"
    /\ outcome = "ok"
    /\ Len(recent) >= 2
    /\ recent[Len(recent) - 1].stmt = "create widgets as w"
    /\ "g" \notin DOMAIN pre.vars
    /\ vars["g"].kind = "str"

CreateUnregistered == {"create gadgets as x", "create gadgets"}

Held == {vars[k] : k \in DOMAIN vars} \cup {target}

\* C16 as stated: every capability object held in the variable map was returned
\* by a registered factory during a `create` statement.
C16_OnlyFactoryObjects ==
    \A k \in DOMAIN vars :
        IsInterpretable(vars[k]) => vars[k].kind = "app" /\ vars[k].s \in Apps

\* C16 amended: every application object held in the variable map was returned by
\* a registered factory during a `create` statement: it enters the environment
\* only as the result of create, stored by the assignment clause of that
\* statement.  The other capability objects of the map are the interpreter's own
\* wrapper, held only under previousTarget, and the wrappers an assignment builds
\* around a result it does not store verbatim.
C16_AppObjectsComeFromCreate ==
    /\ [](\A k \in DOMAIN vars :
            IsInterpretable(vars[k]) =>
                \/ vars[k].kind = "app" /\ vars[k].s \in Apps /\ vars[k].n < nextId
                \/ vars[k] = ISelf /\ k = "previousTarget"
                \/ vars[k].kind \in {"wrapped:none", "wrapped:num"} /\ vars[k].n < nextId)
    /\ [][\A k \in DOMAIN vars' :
            (vars'[k].kind = "app" /\ vars'[k] \notin Held) =>
                /\ pc = "store"
                /\ Executed("create")
                /\ k = Selected.assignment
                /\ vars'[k] = result]_svars

\* C16 witness: the map holds an application object, the interpreter's wrapper
\* under previousTarget and a wrapper built by an assignment
C16_Witness ==
    /\ Finished
    /\ DOMAIN vars = {"w", "previousTarget", "v"}
    /\ vars["w"].kind = "app"
    /\ vars["previousTarget"] = ISelf
    /\ vars["v"].kind = "wrapped:none"

C17_OthersWitness(m) ==
    /\ Finished
    /\ outcome = "ok"
    /\ Executed(m)
    /\ target.kind = "app"
    /\ target = pre.target

C17_ListWitness == C17_OthersWitness("list")
C17_ShowWitness == C17_OthersWitness("show")
C17_ClearWitness == C17_OthersWitness("clear_session")
C17_DeleteWitness == C17_OthersWitness("delete")

\* the variables the last statement added or rebound, and those it removed
Rebound == {k \in DOMAIN vars : k \notin DOMAIN pre.vars \/ vars[k] # pre.vars[k]}
Removed == DOMAIN pre.vars \ DOMAIN vars

Assigned == Finished /\ outcome = "ok" /\ calls[1].assignment # NoName

\* C19 as stated: the variable is bound to the result itself when the result is a
\* string, a number or a collection, and to a capability wrapper around the result
\* for any other result.
C19_StoresPrimitivesVerbatim ==
    Assigned =>
        LET v == vars[calls[1].assignment]
        IN  IF result.kind \in {"str", "num", "list", "dict", "set"}
            THEN v = result
            ELSE v.kind = "wrapped:" \o result.kind /\ Unwrap(v) = result

\* C19 amended: the variable is bound to the result itself when the result is a
\* string, a list, a dict, a set or a capability object, and to a new capability
\* wrapper around the result for any other result, a number and None included.
C19_StoresTextCollectionsAndObjects ==
    Assigned =>
        LET v == vars[calls[1].assignment]
        IN  IF result.kind \in {"str", "list", "dict", "set", "app", "iself"}
            THEN v = result
            ELSE /\ result.kind \in {"num", "none"}
                 /\ v.kind = "wrapped:" \o result.kind
                 /\ Unwrap(v) = result
                 /\ v \notin {pre.vars[k] : k \in DOMAIN pre.vars}

\* C19 witness: the number count returned was stored inside a wrapper
C19_Witness ==
    /\ Assigned
    /\ stmt = "using w, count as n"
    /\ result = Num("3")
    /\ vars["n"].kind = "wrapped:num"
    /\ Unwrap(vars["n"]) = result

\* a list, a string, an application object and None were assigned too
C19_KindWitness(kind) == Assigned /\ result.kind = kind
C19_ListWitness == C19_KindWitness("list")
C19_TextWitness == C19_KindWitness("str")
C19_ObjectWitness == C19_KindWitness("app")
C19_NoneWitness == C19_KindWitness("none")

\* the candidate has a target clause
Explicit(exp) == exp.target # NoName

\* binding the candidate against the active target of the last statement succeeds
BindsOnTarget(exp) ==
    /\ IsInterpretable(pre.target)
    /\ BindOn(pre.target, exp, pre.vars).status = "bound"

\* C20: a candidate with a target clause is bound only against the value of the
\* variable it names, and fails with UnknownTarget when the name is unbound,
\* whatever the active target and the interpreter offer; a candidate without one
\* is bound against the active target first, and against the interpreter only
\* when binding against the active target fails.
C20_ReceiverSelection ==
    LET exps == Parse(stmt, rootOrder)
    IN  Finished =>
          \A i \in 1..Len(exps) :
            IF Explicit(exps[i])
            THEN /\ exps[i].target \notin DOMAIN pre.vars =>
                       /\ Attempts[i].status = "failed"
                       /\ Attempts[i].failure.kind = "UnknownTarget"
                       /\ Attempts[i].failure.about = exps[i].target
                 /\ Attempts[i].status = "bound" =>
                       /\ exps[i].target \in DOMAIN pre.vars
                       /\ Attempts[i].bound.recv = pre.vars[exps[i].target]
            ELSE /\ BindsOnTarget(exps[i]) =>
                       /\ Attempts[i].status = "bound"
                       /\ Attempts[i].bound.recv = pre.target
                 /\ (Attempts[i].status = "bound" /\ ~BindsOnTarget(exps[i])) =>
                       Attempts[i].bound.recv = ISelf

\* C20 witness: `using z, ping` with z unbound failed to bind although the active
\* target has the operation ping
C20_Witness ==
    /\ Finished
    /\ stmt = "using z, ping"
    /\ outcome = "bind_failed"
    /\ pre.target.kind = "app"
    /\ "ping" \in DOMAIN OpsOf(Unwrap(pre.target))
    /\ calls = <<>>

\* `options` ran on the active target although the interpreter has it too, `list`
\* ran on the interpreter because the active target lacks it, and `using x, list`
\* failed although the interpreter has list
C20_TargetFirstWitness ==
    /\ Finished
    /\ stmt = "options"
    /\ outcome = "ok"
    /\ calls[1].recv = pre.target
    /\ pre.target.kind = "app"

C20_FallbackWitness ==
    /\ Finished
    /\ stmt = "list"
    /\ outcome = "ok"
    /\ calls[1].recv = ISelf
    /\ pre.target.kind = "app"

C20_NoFallbackWitness ==
    /\ Finished
    /\ stmt = "using x, list"
    /\ outcome = "bind_failed"
    /\ "x" \in DOMAIN pre.vars
    /\ report.kind = "UnknownMethod"

----------------------------------------------------------------------------
\* C21: in every reachable state the active target is a capability object (an
\* Interpretable) or the interpreter itself, never a raw string or collection.
C21_TargetIsCapability == IsInterpretable(target)

\* `use g` was accepted while g held the text that greet returned
C21_TextTargetReached ==
    /\ Finished
    /\ outcome = "ok"
    /\ stmt = "use g"
    /\ pre.vars["g"].kind = "str"
    /\ target = pre.vars["g"]

----------------------------------------------------------------------------
\* the failures bind() of __call__ catches and ranks
Classified == {"UnknownVariable", "UnknownTarget", "UnknownMethod", "ArgumentMismatch"}

\* C22: every bind attempt for a candidate ends in a bound call or in one of the
\* four classified failures with its priority, and a candidate that fails to bind
\* never keeps the other candidates of the statement from being attempted and
\* ranked: the statement ends with the first ranked binding executed or with the
\* best ranked failure reported.
C22_BindAttemptsAreClassified ==
    (Finished /\ ~ParseFails(stmt)) =>
        /\ \A i \in 1..Len(Attempts) :
              \/ Attempts[i].status = "bound"
              \/ /\ Attempts[i].status = "failed"
                 /\ Attempts[i].failure.kind \in Classified
        /\ outcome \in {"ok", "exec_failed", "bind_failed", "nothing"}

\* `using g, ping` was submitted while g held a text: the attempt for its first
\* candidate raised an exception that is no InterpException
C22_CrashReached ==
    /\ Finished
    /\ stmt = "using g, ping"
    /\ "g" \in DOMAIN pre.vars
    /\ pre.vars["g"].kind = "str"
    /\ outcome = "internal_error"
    /\ \E i \in 1..Len(Attempts) : Attempts[i].status = "failed"

----------------------------------------------------------------------------
\* the ways a statement ends with a diagnostic
Failed == {"parse_error", "bind_failed", "exec_failed", "internal_error"}

\* C23 as stated: in the outer shell a statement that fails to parse ends the
\* whole session, so no later statement is processed, whereas a statement that
\* fails to bind or fails during execution is reported and the shell goes on.
C23_ParseFailureEndsSession ==
    /\ (Finished /\ outcome = "parse_error") => shell = "exited"
    /\ prior # "parse_error"
    /\ (Finished /\ outcome \in {"bind_failed", "exec_failed"}) => shell = "reading"

\* C23 amended: a statement that fails to parse, to bind or during execution is
\* reported by the interpreter and the shell goes on to the next statement; the
\* session ends only when the exit operation is executed.
C23_FailuresNeverEndSession ==
    /\ []((Finished /\ outcome \in Failed) => shell = "reading")
    /\ [](shell = "exited" => (outcome = "exited" /\ Executed("exit")))
    /\ [][shell = "reading"]_svars

\* C23 witness: a statement was executed after a statement that failed to parse
C23_Witness ==
    /\ Finished
    /\ prior = "parse_error"
    /\ outcome = "ok"
    /\ shell = "reading"

\* the session was ended by exit
C23_ExitWitness == shell = "exited" /\ prior \in Failed

----------------------------------------------------------------------------
\* the statement that has just ended is submitted again, and it left the variables
\* and the target as it found them
Resubmitted ==
    /\ pc = "idle"
    /\ outcome # "none"
    /\ stmt' = stmt
    /\ vars = pre.vars
    /\ target = pre.target

----------------------------------------------------------------------------
\* the interpretations of one lexeme
Interpretations(cs) == {visit_literal(LexemeForest(cs))[i] : i \in 1..Len(Alternatives(cs))}

\* the product of the interpretation counts of the elements
RECURSIVE CountOfList(_)
CountOfList(list) ==
    IF list = <<>> THEN 1 ELSE Len(Alternatives(list[1])) * CountOfList(Tail(list))

RECURSIVE CountOfMap(_)
CountOfMap(map) ==
    IF map = <<>> THEN 1 ELSE Len(Alternatives(map[1].lex)) * CountOfMap(Tail(map))

Distinct(out) == \A c, d \in 1..Len(out) : c # d => out[c] # out[d]

\* position i of the candidate list holds an interpretation of the i-th element
ReadsList(l, list) ==
    /\ Len(l) = Len(list)
    /\ \A i \in 1..Len(list) : l[i] \in Interpretations(list[i])

\* key k of the candidate map holds an interpretation of the value written for k
ReadsMap(m, map) ==
    /\ DOMAIN m = {map[i].key : i \in 1..Len(map)}
    /\ \A i \in 1..Len(map) : m[map[i].key] \in Interpretations(map[i].lex)

\* C25: a literal list of n elements, or a literal map of n pairs with distinct keys,
\* yields exactly one candidate for every combination of one interpretation per
\* element: the number of candidates is the product of the interpretation counts,
\* position i (key k) of every candidate holds an interpretation of the i-th
\* element (of the value of k), and every candidate of a list-and-map clause
\* carries a list and a map.
C25_ExpansionIsProduct ==
    /\ (input.form = "list" /\ expanded.done) =>
          /\ Len(expanded.out) = CountOfList(input.list)
          /\ Distinct(expanded.out)
          /\ \A c \in 1..Len(expanded.out) : ReadsList(expanded.out[c], input.list)
    /\ (input.form = "map" /\ expanded.done) =>
          /\ Len(expanded.out) = CountOfMap(input.map)
          /\ Distinct(expanded.out)
          /\ \A c \in 1..Len(expanded.out) : ReadsMap(expanded.out[c], input.map)
    /\ (input.form = "args" /\ expanded.done) =>
          /\ Len(expanded.out) = CountOfList(input.list) * CountOfMap(input.map)
          /\ Distinct(expanded.out)
          /\ \A c \in 1..Len(expanded.out) :
                /\ expanded.out[c].haslist /\ expanded.out[c].hasmap
                /\ ReadsList(expanded.out[c].list, input.list)
                /\ ReadsMap(expanded.out[c].map, input.map)

\* C25 witness: a list of three elements, two of them with two interpretations,
\* was expanded into four candidates
C25_Witness ==
    /\ input.form = "list"
    /\ expanded.done
    /\ Len(input.list) = 3
    /\ Len(Alternatives(input.list[1])) = 2
    /\ Len(Alternatives(input.list[2])) = 1
    /\ Len(Alternatives(input.list[3])) = 2
    /\ Len(expanded.out) = 4

\* a map of two pairs was expanded into four candidates
C25_MapWitness ==
    /\ input.form = "map"
    /\ expanded.done
    /\ Len(input.map) = 2
    /\ Len(expanded.out) = 4

\* a list and a map were expanded into eight candidates
C25_BothWitness ==
    /\ input.form = "args"
    /\ expanded.done
    /\ Len(expanded.out) = 8

----------------------------------------------------------------------------
\* C26: every number literal, a signed one included, expands to exactly two
\* candidate interpretations: its numeric value and its original text.
C26_NumberHasTwoReadings ==
    (input.form = "literal" /\ expanded.done /\ IsNumber(input.lex)) =>
        /\ ~expanded.error
        /\ expanded.out = <<Num(TextOf(input.lex)), Str(TextOf(input.lex))>>

\* the number +5 was expanded into its numeric value alone
C26_PlusSignReached ==
    /\ input.form = "literal"
    /\ input.lex = <<"+", "5">>
    /\ expanded.done
    /\ expanded.out = <<Num("+5")>>

\* the number -5 was expanded into its numeric value and its text
C26_MinusSignReached ==
    /\ input.form = "literal"
    /\ input.lex = <<"-", "5">>
    /\ expanded.done
    /\ expanded.out = <<Num("-5"), Str("-5")>>

----------------------------------------------------------------------------
\* the rendering rules as the specification lists them
C27_Rule(r) ==
    IF r.kind = "list" /\ FirstIsList(r) THEN "table"
    ELSE IF r.kind = "none" \/ (r.kind \in {"list", "set"} /\ IsEmpty(r))
            \/ (r.kind = "str" /\ r.s = "") THEN "<none>"
    ELSE IF r.kind \in {"list", "set"} THEN "lines"
    ELSE IF r.kind = "str" THEN "wrapped"
    ELSE "generic"

\* C27: the result of a successful statement without an assignment clause is
\* rendered as a table (sequence of sequences), one element per line (any other
\* sequence or set), word-wrapped (string), in its generic textual form (any
\* other non-empty value), and as the "no value" indicator when it is absent,
\* an empty sequence or an empty string.
C27_RenderedByRule ==
    (Finished /\ outcome = "ok" /\ shown # <<>>) =>
        /\ shown[Len(shown)].val = result
        /\ shown[Len(shown)].form = C27_Rule(result)

\* `report` returned an empty list and nothing at all was printed
C27_EmptyListReached ==
    /\ Finished /\ outcome = "ok"
    /\ result = ListOf(<<>>)
    /\ shown # <<>>
    /\ shown[Len(shown)].form = "nothing"

\* `report` returned "" and nothing at all was printed
C27_EmptyTextReached ==
    /\ Finished /\ outcome = "ok"
    /\ result = Str("")
    /\ shown # <<>>
    /\ shown[Len(shown)].form = "nothing"

\* the rules hold for every result that is neither empty nor the name of a variable
C27_NonEmptyRenderedByRule ==
    (/\ Finished /\ outcome = "ok" /\ shown # <<>>
     /\ ~(result.kind \in {"list", "set"} /\ IsEmpty(result))
     /\ ~(result.kind = "str" /\ (Blank(result.s) \/ result.s \in DOMAIN vars))) =>
        /\ shown[Len(shown)].val = result
        /\ shown[Len(shown)].form = C27_Rule(result)

\* a table was rendered
C27_TableReached ==
    /\ Finished /\ outcome = "ok"
    /\ shown # <<>>
    /\ shown[Len(shown)].form = "table"
    /\ result.items[1].kind = "list"

----------------------------------------------------------------------------
\* some variable of env holds v
HeldIn(v, env) == \E k \in DOMAIN env : env[k] = v

----------------------------------------------------------------------------
\* the call of the current statement has been made
CallMade ==
    /\ calls # <<>>
    /\ pc = "store" \/ (Finished /\ outcome \in {"ok", "exec_failed"})

\* the readings of the current statement that the call made comes from
ReadingsOfCall ==
    LET b == calls[Len(calls)]
        rs == Readings(stmt)
    IN  {rs[j] : j \in {i \in 1..Len(rs) : /\ rs[i].method = <<b.method>>
                                           /\ rs[i].list # <<>>
                                           /\ Len(rs[i].list) = Len(b.args)}}

\* C29 as stated: an argument token that is both a bare string and an
\* identifier and names an existing variable reaches the call as the variable's
\* value (unwrapped), not as the token's text.
C29_VariableValueIsReceived ==
    CallMade =>
        \A r \in ReadingsOfCall : \A i \in 1..Len(r.list) :
            (r.list[i].cls = "word" /\ r.list[i].lex \in DOMAIN pre.vars) =>
                calls[Len(calls)].args[i] = ResolveId(IdV(r.list[i].lex), pre.vars)

\* C29: an argument token that is both a bare string and an identifier reaches
\* the call as the token's text, also when it names an existing variable; the
\* variable's value (unwrapped) is received for a token that is an identifier
\* and no bare string.
C29_TokenTextIsReceived ==
    CallMade =>
        \A r \in ReadingsOfCall : \A i \in 1..Len(r.list) :
            (r.list[i].lex \in DOMAIN pre.vars) =>
                /\ r.list[i].cls = "word" => calls[Len(calls)].args[i] = Str(r.list[i].lex)
                /\ r.list[i].cls = "name" =>
                       calls[Len(calls)].args[i] = ResolveId(IdV(r.list[i].lex), pre.vars)

\* `show w` was executed while w held a widgets object, and show received "w"
C29_Witness ==
    /\ CallMade
    /\ stmt = "show w"
    /\ "w" \in DOMAIN pre.vars
    /\ pre.vars["w"].kind = "app"
    /\ calls[Len(calls)].method = "show"
    /\ calls[Len(calls)].args = <<Str("w")>>

\* `show w_1` was executed while w_1 held a widgets object, and show received
\* the object
C29_NameWitness ==
    /\ CallMade
    /\ stmt = "show w_1"
    /\ "w_1" \in DOMAIN pre.vars
    /\ calls[Len(calls)].method = "show"
    /\ calls[Len(calls)].args = <<Unwrap(pre.vars["w_1"])>>
    /\ calls[Len(calls)].args[1].kind = "appobj"

----------------------------------------------------------------------------
\* C30: for a successful statement without an assignment clause whose operation
\* is not show, what is rendered is exactly the value the operation returned,
\* whatever the variables are.
C30_RenderedIsReturned ==
    (/\ Finished /\ outcome = "ok" /\ shown # <<>>
     /\ calls # <<>> /\ calls[Len(calls)].method # "show") =>
        shown[Len(shown)] = Rendering(result)

\* `report` returned the text "pong" while a variable pong held a list, and the
\* list was rendered
C30_VariableShownReached ==
    /\ Finished /\ outcome = "ok"
    /\ calls # <<>> /\ calls[Len(calls)].method = "report"
    /\ result = Str("pong")
    /\ "pong" \in DOMAIN vars
    /\ shown # <<>>
    /\ shown[Len(shown)].val = vars["pong"]
    /\ shown[Len(shown)].form = "lines"

\* `report` returned the text "pong" while no variable had that name, and the
\* text was rendered
C30_TextShownReached ==
    /\ Finished /\ outcome = "ok"
    /\ calls # <<>> /\ calls[Len(calls)].method = "report"
    /\ result = Str("pong")
    /\ "pong" \notin DOMAIN vars
    /\ shown # <<>>
    /\ shown[Len(shown)] = Rendering(Str("pong"))

====
